---- MODULE Spec2Model ----
(***************************************************************************)
(* Cycle-accurate model of the SATA link layer of litesata/core/link.py:   *)
(* CRC engine, CRC inserter/checker, scrambler, CONT inserter/remover and  *)
(* the TX / RX link state machines.                                        *)
(*                                                                         *)
(* A 32-bit word is the set of the positions of its set bits (a subset of  *)
(* 0..31), so that XOR is the symmetric difference and every word keeps    *)
(* its full width.  The inputs a module samples in a clock cycle are part  *)
(* of the state; a clock tick computes the registers' next values from the *)
(* registers and these inputs, and draws the inputs of the next cycle.     *)
(***************************************************************************)
EXTENDS Naturals, Integers, Sequences, FiniteSets, TLC

\* ------------------------------------------------------------------ words

RECURSIVE Pow2(_)
Pow2(n) == IF n = 0 THEN 1 ELSE 2 * Pow2(n - 1)

\* the set bits of a number below 2^31
Bits(n) == {i \in 0..30 : (n \div Pow2(i)) % 2 = 1}

\* the 32-bit word with upper half hi and lower half lo (both below 2^16)
W32(hi, lo) == Bits(lo) \cup {i + 16 : i \in Bits(hi)}

XOR(a, b) == (a \ b) \cup (b \ a)

Odd(n) == n % 2 = 1

\* reduce(xor, [v[i] for i in taps]) of the bits of v
XorBits(taps, v) == Odd(Cardinality(taps \cap v))

Zero == {}

\* ------------------------------------------------------------- primitives
\* litesata/common.py: the primitives dictionary (SATA encodings)
primitives ==
    [ ALIGN |-> W32(31562, 19132),   \* 0x7B4A4ABC
      CONT  |-> W32(39321, 43644),   \* 0x9999AA7C
      SYNC  |-> W32(46517, 38268),   \* 0xB5B5957C
      R_RDY |-> W32(19018, 38268),   \* 0x4A4A957C
      R_OK  |-> W32(13621, 46460),   \* 0x3535B57C
      R_ERR |-> W32(22102, 46460),   \* 0x5656B57C
      R_IP  |-> W32(21845, 46460),   \* 0x5555B57C
      X_RDY |-> W32(22359, 46460),   \* 0x5757B57C
      WTRM  |-> W32(22616, 46460),   \* 0x5858B57C
      SOF   |-> W32(14135, 46460),   \* 0x3737B57C
      EOF   |-> W32(54741, 46460),   \* 0xD5D5B57C
      HOLD  |-> W32(54741, 43644),   \* 0xD5D5AA7C
      HOLDA |-> W32(38293, 43644) ]  \* 0x9595AA7C

\* ------------------------------------------------------------- CRC engine

width == 32
polynom == 79764919        \* 0x04C11DB7
init == Bits(1379029042)   \* 0x52325032
check == Zero              \* 0x00000000

\* one pass of the loop "for i in range(width)" of CRCEngine: pop the top
\* equation, add it to every equation whose polynom bit is set (pairs cancel,
\* _optimize_eq), put it back at position 0
\* the same with the test "polynom & (1<<j)": the taps one bit too low
\* (placed before the pass it is a variant of)
CurvalStep_PolynomBitJ(cv) ==
    LET feedback == cv[width - 1]
    IN  [k \in 0..(width - 1) |->
            IF k = 0 THEN feedback
            ELSE IF ((k - 1) \in Bits(polynom)) THEN XOR(cv[k - 1], feedback)
                 ELSE cv[k - 1]]

CurvalStep(cv) ==
    LET feedback == cv[width - 1]
    IN  [k \in 0..(width - 1) |->
            IF k = 0 THEN feedback
            ELSE IF (k \in Bits(polynom)) THEN XOR(cv[k - 1], feedback)
                 ELSE cv[k - 1]]

RECURSIVE CurvalIter(_, _)
CurvalIter(cv, n) == IF n = 0 THEN cv ELSE CurvalIter(CurvalStep(cv), n - 1)

\* curval after the loop: for every output bit the bits of "new" it XORs
curval == CurvalIter([k \in 0..(width - 1) |-> {k}], width)

\* CRCEngine with "new" declared 16 bits wide: the upper half of last ^ data
\* is lost
CRCEngine_NarrowNew(last, data) ==
    LET new == XOR(last, data) \cap (0..15)
    IN  {k \in 0..(width - 1) : XorBits(curval[k], new)}

\* CRCEngine: next as a function of last and data
CRCEngine(last, data) ==
    LET new == XOR(last, data)
    IN  {k \in 0..(width - 1) : XorBits(curval[k], new)}

\* -------------------------------------------------------------- scrambler

ScramblerReset == Bits(61686)   \* 0xf0f6

lfsr_coefs == <<
    {15, 13, 4, 0},
    {15, 14, 13, 5, 4, 1, 0},
    {14, 13, 6, 5, 4, 2, 1, 0},
    {15, 14, 7, 6, 5, 3, 2, 1},
    {13, 8, 7, 6, 3, 2, 0},
    {14, 9, 8, 7, 4, 3, 1},
    {15, 10, 9, 8, 5, 4, 2},
    {15, 13, 11, 10, 9, 6, 5, 4, 3, 0},
    {15, 14, 13, 12, 11, 10, 7, 6, 5, 1, 0},
    {14, 12, 11, 8, 7, 6, 4, 2, 1, 0},
    {15, 13, 12, 9, 8, 7, 5, 3, 2, 1},
    {15, 14, 10, 9, 8, 6, 3, 2, 0},
    {13, 11, 10, 9, 7, 3, 1, 0},
    {14, 12, 11, 10, 8, 4, 2, 1},
    {15, 13, 12, 11, 9, 5, 3, 2},
    {15, 14, 12, 10, 6, 3, 0},
    {11, 7, 1, 0},
    {12, 8, 2, 1},
    {13, 9, 3, 2},
    {14, 10, 4, 3},
    {15, 11, 5, 4},
    {15, 13, 12, 6, 5, 4, 0},
    {15, 14, 7, 6, 5, 4, 1, 0},
    {13, 8, 7, 6, 5, 4, 2, 1, 0},
    {14, 9, 8, 7, 6, 5, 3, 2, 1},
    {15, 10, 9, 8, 7, 6, 4, 3, 2},
    {15, 13, 11, 10, 9, 8, 7, 5, 3, 0},
    {15, 14, 13, 12, 11, 10, 9, 8, 6, 1, 0},
    {14, 12, 11, 10, 9, 7, 4, 2, 1, 0},
    {15, 13, 12, 11, 10, 8, 5, 3, 2, 1},
    {15, 14, 12, 11, 9, 6, 3, 2, 0},
    {12, 10, 7, 3, 1, 0} >>

\* Scrambler.value: next_value computed from the 16-bit context
ScramblerValue(context) ==
    {n \in 0..31 : XorBits(lfsr_coefs[n + 1], context)}

\* context.eq(next_value[16:32])
ScramblerNextContext(context) ==
    {n - 16 : n \in {m \in ScramblerValue(context) : m >= 16}}

\* ---------------------------------------------------------------- streams

\* a word of a link_description stream: stb, data, sop, eop, error
NoWord == [stb |-> FALSE, data |-> Zero, sop |-> FALSE, eop |-> FALSE,
           error |-> FALSE]

\* ------------------------------------------------------------ LiteSATACRC

\* reg_i of LiteSATACRC under ResetInserter (outer) and CEInserter
CRCRegNext(reg, data, ce, reset) ==
    IF reset THEN init ELSE IF ce THEN CRCEngine(reg, data) ELSE reg

\* LiteSATACRC.error
CRCError(reg, data) == CRCEngine(reg, data) # check

\* ---------------------------------------------------- LiteSATACRCInserter
\* registers: state (IDLE, COPY, INSERT), reg (the CRC register)

InserterReset == [state |-> "IDLE", reg |-> init]

\* InserterSource with eop passed on in COPY
InserterSource_EopKept(r, sink) ==
    CASE r.state = "IDLE"   -> NoWord
      [] r.state = "COPY"   -> sink
      [] r.state = "INSERT" -> [stb |-> TRUE, data |-> r.reg, sop |-> FALSE,
                                eop |-> TRUE, error |-> FALSE]

InserterSource(r, sink) ==
    CASE r.state = "IDLE"   -> NoWord
      [] r.state = "COPY"   -> [sink EXCEPT !.eop = FALSE]
      [] r.state = "INSERT" -> [stb |-> TRUE, data |-> r.reg, sop |-> FALSE,
                                eop |-> TRUE, error |-> FALSE]

\* InserterSinkAck with sink.ack left at 1 in IDLE
InserterSinkAck_IdleAcksAll(r, sink, source_ack) ==
    CASE r.state = "IDLE"   -> TRUE
      [] r.state = "COPY"   -> source_ack
      [] r.state = "INSERT" -> FALSE

InserterSinkAck(r, sink, source_ack) ==
    CASE r.state = "IDLE"   -> ~(sink.stb /\ sink.sop)
      [] r.state = "COPY"   -> source_ack
      [] r.state = "INSERT" -> FALSE

InserterBusy(r) == r.state # "IDLE"

\* InserterNext with crc.ce = sink.stb: the CRC also advances on a word the
\* source does not accept
InserterNext_CeIgnoresAck(r, sink, source_ack) ==
    CASE r.state = "IDLE" ->
            [state |-> IF sink.stb /\ sink.sop THEN "COPY" ELSE "IDLE",
             reg   |-> CRCRegNext(r.reg, Zero, FALSE, TRUE)]
      [] r.state = "COPY" ->
            [state |-> IF sink.stb /\ sink.eop /\ source_ack
                       THEN "INSERT" ELSE "COPY",
             reg   |-> CRCRegNext(r.reg, sink.data, sink.stb, FALSE)]
      [] r.state = "INSERT" ->
            [state |-> IF source_ack THEN "IDLE" ELSE "INSERT",
             reg   |-> r.reg]

InserterNext(r, sink, source_ack) ==
    CASE r.state = "IDLE" ->
            [state |-> IF sink.stb /\ sink.sop THEN "COPY" ELSE "IDLE",
             reg   |-> CRCRegNext(r.reg, Zero, FALSE, TRUE)]
      [] r.state = "COPY" ->
            [state |-> IF sink.stb /\ sink.eop /\ source_ack
                       THEN "INSERT" ELSE "COPY",
             reg   |-> CRCRegNext(r.reg, sink.data, sink.stb /\ source_ack,
                                  FALSE)]
      [] r.state = "INSERT" ->
            [state |-> IF source_ack THEN "IDLE" ELSE "INSERT",
             reg   |-> r.reg]

\* ----------------------------------------------------- LiteSATACRCChecker
\* registers: state (RESET, IDLE, COPY), reg (the CRC register), fifo (the
\* content of the 2-entry SyncFIFO, oldest first)

CheckerReset == [state |-> "RESET", reg |-> init, fifo |-> << >>]

CheckerFifoFull(r) == Len(r.fifo) = 1

CheckerSourceStb(r, sink) == sink.stb /\ CheckerFifoFull(r)

CheckerFifoOut(r, sink, source_ack) == CheckerSourceStb(r, sink) /\ source_ack

CheckerFifoIn(r, sink, source_ack) ==
    sink.stb /\ (~CheckerFifoFull(r) \/ CheckerFifoOut(r, sink, source_ack))

CheckerSinkAck(r, sink, source_ack) == CheckerFifoIn(r, sink, source_ack)

CheckerSource(r, sink) ==
    LET head == IF Len(r.fifo) > 0 THEN Head(r.fifo) ELSE NoWord
    IN  [stb   |-> CheckerSourceStb(r, sink),
         data  |-> head.data,
         sop   |-> head.sop,
         eop   |-> sink.eop,
         error |-> sink.error \/ CRCError(r.reg, sink.data)]

CheckerBusy(r) == r.state # "IDLE"

\* the SyncFIFO: a write when fifo.sink.stb and writable, a read when
\* fifo.source.ack and readable; its reset wins
CheckerFifoNext(r, sink, source_ack, reset) ==
    LET do_read  == CheckerFifoOut(r, sink, source_ack) /\ Len(r.fifo) > 0
        do_write == CheckerFifoIn(r, sink, source_ack) /\ Len(r.fifo) < 2
        kept     == IF do_read THEN Tail(r.fifo) ELSE r.fifo
    IN  IF reset THEN << >>
        ELSE IF do_write THEN Append(kept, sink) ELSE kept

CheckerNext(r, sink, source_ack) ==
    LET ack == CheckerSinkAck(r, sink, source_ack)
    IN  CASE r.state = "RESET" ->
               [state |-> "IDLE",
                reg   |-> CRCRegNext(r.reg, Zero, FALSE, TRUE),
                fifo  |-> CheckerFifoNext(r, sink, source_ack, TRUE)]
          [] r.state = "IDLE" ->
               [state |-> IF sink.stb /\ sink.sop /\ ack THEN "COPY" ELSE "IDLE",
                reg   |-> CRCRegNext(r.reg, sink.data,
                                     sink.stb /\ sink.sop /\ ack, FALSE),
                fifo  |-> CheckerFifoNext(r, sink, source_ack, FALSE)]
          [] r.state = "COPY" ->
               [state |-> IF sink.stb /\ ack /\ sink.eop THEN "RESET" ELSE "COPY",
                reg   |-> CRCRegNext(r.reg, sink.data, sink.stb /\ ack, FALSE),
                fifo  |-> CheckerFifoNext(r, sink, source_ack, FALSE)]

\* ------------------------------------------------------ LiteSATAScrambler
\* register: the 16-bit context of the Scrambler

LiteSATAScramblerSource(context, sink) ==
    [sink EXCEPT !.data = XOR(sink.data, ScramblerValue(context))]

\* LiteSATAScramblerNext with scrambler.ce = sink.stb: the context also
\* advances on a word that is not accepted
LiteSATAScramblerNext_CeIgnoresAck(context, sink, source_ack, reset) ==
    IF reset THEN ScramblerReset
    ELSE IF sink.stb THEN ScramblerNextContext(context)
    ELSE context

\* scrambler.ce = sink.stb & sink.ack, sink.ack = source.ack; reset wins
LiteSATAScramblerNext(context, sink, source_ack, reset) ==
    IF reset THEN ScramblerReset
    ELSE IF sink.stb /\ source_ack THEN ScramblerNextContext(context)
    ELSE context

\* --------------------------------------------------- LiteSATACONTInserter
\* a word of a phy_description stream: stb, data, charisk

NoPhyWord == [stb |-> FALSE, data |-> Zero, charisk |-> 0]

\* registers: counter, last_data, last_primitive, last_charisk, was_data,
\* was_hold and the context of the filler scrambler (never reset)
CONTInserterReset ==
    [counter |-> 0, last_data |-> Zero, last_primitive |-> Zero,
     last_charisk |-> 0, was_data |-> FALSE, was_hold |-> FALSE,
     context |-> ScramblerReset]

CONTInserterIsData(sink) == sink.charisk = 0

\* change without the term is_data: a data word equal to the one before
\* counts as a repetition
CONTInserterChange_NoIsData(r, sink) ==
    \/ sink.data # r.last_data
    \/ sink.charisk # r.last_charisk

CONTInserterChange(r, sink) ==
    \/ sink.data # r.last_data
    \/ sink.charisk # r.last_charisk
    \/ CONTInserterIsData(sink)

\* a variant that re-inserts whatever the compressed run was
CONTInserterReinsert_AnyRun(r, sink) ==
    /\ sink.stb
    /\ CONTInserterChange(r, sink)
    /\ r.counter = 2

\* the branch "Reinsert last primitive"
CONTInserterReinsert(r, sink) ==
    /\ sink.stb
    /\ CONTInserterChange(r, sink)
    /\ r.counter = 2
    /\ (CONTInserterIsData(sink) \/ (~CONTInserterIsData(sink) /\ r.was_hold))

CONTInserterSource(r, sink) ==
    IF sink.stb /\ ~CONTInserterChange(r, sink) /\ r.counter = 1
    THEN [stb |-> sink.stb, data |-> primitives.CONT, charisk |-> 1]
    ELSE IF sink.stb /\ ~CONTInserterChange(r, sink) /\ r.counter = 2
    THEN [stb |-> sink.stb, data |-> ScramblerValue(r.context), charisk |-> 0]
    ELSE IF CONTInserterReinsert(r, sink)
    THEN [stb |-> TRUE, data |-> r.last_primitive, charisk |-> 1]
    ELSE sink

CONTInserterSinkAck(r, sink, source_ack) ==
    IF CONTInserterReinsert(r, sink) THEN FALSE ELSE source_ack

CONTInserterNext(r, sink, source_ack) ==
    LET change        == CONTInserterChange(r, sink)
        sink_ack      == CONTInserterSinkAck(r, sink, source_ack)
        counter_ce    == sink.stb /\ ~change /\ sink_ack /\ r.counter # 2
        counter_reset == sink.stb /\ change /\ source_ack
        scrambler_ce  == sink.stb /\ ~change /\ r.counter = 2 /\ sink_ack
        latch         == sink.stb /\ source_ack
    IN  [counter        |-> IF counter_reset THEN 0
                            ELSE IF counter_ce THEN (r.counter + 1) % 4
                            ELSE r.counter,
         last_data      |-> IF latch THEN sink.data ELSE r.last_data,
         last_charisk   |-> IF latch THEN sink.charisk ELSE r.last_charisk,
         last_primitive |-> IF latch /\ ~CONTInserterIsData(sink)
                            THEN sink.data ELSE r.last_primitive,
         was_data       |-> IF latch THEN CONTInserterIsData(sink)
                            ELSE r.was_data,
         was_hold       |-> IF latch THEN r.last_primitive = primitives.HOLD
                            ELSE r.was_hold,
         context        |-> IF scrambler_ce
                            THEN ScramblerNextContext(r.context)
                            ELSE r.context]

\* ---------------------------------------------------- LiteSATACONTRemover
\* registers: in_cont, last_primitive

CONTRemoverReset == [in_cont |-> FALSE, last_primitive |-> Zero]

CONTRemoverIsData(sink) == sink.charisk = 0

CONTRemoverIsCont(sink) ==
    ~CONTRemoverIsData(sink) /\ sink.data = primitives.CONT

\* a variant that takes the control words for the ones to replace
CONTRemoverContOngoing_NonData(r, sink) ==
    CONTRemoverIsCont(sink) \/ (r.in_cont /\ ~CONTRemoverIsData(sink))

CONTRemoverContOngoing(r, sink) ==
    CONTRemoverIsCont(sink) \/ (r.in_cont /\ CONTRemoverIsData(sink))

CONTRemoverSource(r, sink) ==
    IF CONTRemoverContOngoing(r, sink)
    THEN [stb |-> sink.stb, data |-> r.last_primitive, charisk |-> 1]
    ELSE sink

CONTRemoverNext(r, sink, source_ack) ==
    LET xfer == sink.stb /\ source_ack
    IN  [in_cont |-> IF xfer /\ CONTRemoverIsCont(sink) THEN TRUE
                     ELSE IF xfer /\ ~CONTRemoverIsData(sink) THEN FALSE
                     ELSE r.in_cont,
         last_primitive |->
                     IF xfer /\ ~CONTRemoverIsData(sink)
                             /\ ~CONTRemoverIsCont(sink)
                     THEN sink.data ELSE r.last_primitive]

\* --------------------------------------------------------- LiteSATALinkTX
\* registers: state (the FSM), crc (the LiteSATACRCInserter), context (the
\* LiteSATAScrambler).  from_rx is a record idle, insert, primitive_stb,
\* primitive.

TXReset == [state |-> "IDLE", crc |-> InserterReset, context |-> ScramblerReset]

\* pipeline.source: the word behind CRC inserter and scrambler
TXPipelineSource(r, sink) ==
    LiteSATAScramblerSource(r.context, InserterSource(r.crc, sink))

FromRXSees(from_rx, p) == from_rx.primitive_stb /\ from_rx.primitive = p

\* insert: the primitive the FSM asks for in its state (Zero: none)
TXInsert(r, sink, from_rx) ==
    CASE r.state = "IDLE"  -> IF from_rx.idle THEN primitives.SYNC ELSE Zero
      [] r.state = "RDY"   -> primitives.X_RDY
      [] r.state = "SOF"   -> primitives.SOF
      [] r.state = "COPY"  ->
            IF TXPipelineSource(r, sink).stb THEN Zero
            ELSE IF FromRXSees(from_rx, primitives.HOLD) THEN Zero
            ELSE primitives.HOLD
      [] r.state = "HOLDA" -> primitives.HOLDA
      [] r.state = "EOF"   -> primitives.EOF
      [] r.state = "WTRM"  -> primitives.WTRM

TXCopy(r) == r.state = "COPY"

\* the mux with its first two branches exchanged: the FSM's primitive
\* before from_rx.insert
TXSource_LocalFirst(r, sink, from_rx) ==
    IF TXInsert(r, sink, from_rx) # Zero
    THEN [stb |-> TRUE, data |-> TXInsert(r, sink, from_rx), charisk |-> 1]
    ELSE IF from_rx.insert # Zero
    THEN [stb |-> TRUE, data |-> from_rx.insert, charisk |-> 1]
    ELSE IF TXCopy(r)
    THEN [stb |-> TXPipelineSource(r, sink).stb,
          data |-> TXPipelineSource(r, sink).data, charisk |-> 0]
    ELSE NoPhyWord

\* datas / primitives mux
TXSource(r, sink, from_rx) ==
    IF from_rx.insert # Zero
    THEN [stb |-> TRUE, data |-> from_rx.insert, charisk |-> 1]
    ELSE IF TXInsert(r, sink, from_rx) # Zero
    THEN [stb |-> TRUE, data |-> TXInsert(r, sink, from_rx), charisk |-> 1]
    ELSE IF TXCopy(r)
    THEN [stb |-> TXPipelineSource(r, sink).stb,
          data |-> TXPipelineSource(r, sink).data, charisk |-> 0]
    ELSE NoPhyWord

\* pipeline.source.ack driven from source.ack whenever copy is set, whatever
\* the first two branches of the mux select
TXPipelineAck_CopyOnly(r, sink, from_rx, source_ack) ==
    TXCopy(r) /\ source_ack

\* pipeline.source.ack: driven in the last branch of the mux only
TXPipelineAck(r, sink, from_rx, source_ack) ==
    /\ from_rx.insert = Zero
    /\ TXInsert(r, sink, from_rx) = Zero
    /\ TXCopy(r)
    /\ source_ack

TXSinkAck(r, sink, from_rx, source_ack) ==
    InserterSinkAck(r.crc, sink, TXPipelineAck(r, sink, from_rx, source_ack))

\* TXNextState with the two tests of RDY exchanged: R_RDY before idle
TXNextState_RdyFirst(r, sink, from_rx, source_ack) ==
    LET pipe == TXPipelineSource(r, sink)
        pack == TXPipelineAck(r, sink, from_rx, source_ack)
    IN  CASE r.state = "IDLE" ->
               IF /\ from_rx.idle
                  /\ pipe.stb /\ pipe.sop
                  /\ FromRXSees(from_rx, primitives.SYNC)
               THEN "RDY" ELSE "IDLE"
          [] r.state = "RDY" ->
               IF FromRXSees(from_rx, primitives.R_RDY) THEN "SOF"
               ELSE IF ~from_rx.idle THEN "IDLE"
               ELSE "RDY"
          [] r.state = "SOF" -> IF source_ack THEN "COPY" ELSE "SOF"
          [] r.state = "COPY" ->
               IF pipe.stb /\ pipe.eop /\ pack THEN "EOF"
               ELSE IF FromRXSees(from_rx, primitives.HOLD) THEN "HOLDA"
               ELSE "COPY"
          [] r.state = "HOLDA" ->
               IF FromRXSees(from_rx, primitives.R_IP) THEN "COPY" ELSE "HOLDA"
          [] r.state = "EOF" -> IF source_ack THEN "WTRM" ELSE "EOF"
          [] r.state = "WTRM" ->
               IF from_rx.primitive_stb
                  /\ (from_rx.primitive = primitives.R_OK
                      \/ from_rx.primitive = primitives.R_ERR)
               THEN "IDLE" ELSE "WTRM"

TXNextState(r, sink, from_rx, source_ack) ==
    LET pipe == TXPipelineSource(r, sink)
        pack == TXPipelineAck(r, sink, from_rx, source_ack)
    IN  CASE r.state = "IDLE" ->
               IF /\ from_rx.idle
                  /\ pipe.stb /\ pipe.sop
                  /\ FromRXSees(from_rx, primitives.SYNC)
               THEN "RDY" ELSE "IDLE"
          [] r.state = "RDY" ->
               IF ~from_rx.idle THEN "IDLE"
               ELSE IF FromRXSees(from_rx, primitives.R_RDY) THEN "SOF"
               ELSE "RDY"
          [] r.state = "SOF" -> IF source_ack THEN "COPY" ELSE "SOF"
          [] r.state = "COPY" ->
               IF pipe.stb /\ pipe.eop /\ pack THEN "EOF"
               ELSE IF FromRXSees(from_rx, primitives.HOLD) THEN "HOLDA"
               ELSE "COPY"
          [] r.state = "HOLDA" ->
               IF FromRXSees(from_rx, primitives.R_IP) THEN "COPY" ELSE "HOLDA"
          [] r.state = "EOF" -> IF source_ack THEN "WTRM" ELSE "EOF"
          [] r.state = "WTRM" ->
               IF from_rx.primitive_stb
                  /\ (from_rx.primitive = primitives.R_OK
                      \/ from_rx.primitive = primitives.R_ERR)
               THEN "IDLE" ELSE "WTRM"

\* TXNext without scrambler.reset in IDLE
TXNext_NoScramblerReset(r, sink, from_rx, source_ack) ==
    LET pack == TXPipelineAck(r, sink, from_rx, source_ack)
    IN  [state   |-> TXNextState(r, sink, from_rx, source_ack),
         crc     |-> InserterNext(r.crc, sink, pack),
         context |-> LiteSATAScramblerNext(r.context,
                        InserterSource(r.crc, sink), pack, FALSE)]

TXNext(r, sink, from_rx, source_ack) ==
    LET pack == TXPipelineAck(r, sink, from_rx, source_ack)
    IN  [state   |-> TXNextState(r, sink, from_rx, source_ack),
         crc     |-> InserterNext(r.crc, sink, pack),
         context |-> LiteSATAScramblerNext(r.context,
                        InserterSource(r.crc, sink), pack, r.state = "IDLE")]

\* --------------------------------------------------------- LiteSATALinkRX
\* registers: state (the FSM), sop, crc_error, data (pipeline.sink.data),
\* context (the descrambler), crc (the LiteSATACRCChecker)

RXReset == [state |-> "IDLE", sop |-> FALSE, crc_error |-> FALSE,
            data |-> Zero, context |-> ScramblerReset, crc |-> CheckerReset]

RXDataStb(sink) == sink.stb /\ sink.charisk = 0

RXPrimitiveStb(sink) == sink.stb /\ sink.charisk = 1

RXSees(sink, p) == RXPrimitiveStb(sink) /\ sink.data = p

\* RXPipelineSink without the strobe on EOF: the registered last word is
\* never pushed
RXPipelineSink_NoFlush(r, sink) ==
    IF r.state = "COPY"
    THEN [stb   |-> RXDataStb(sink),
          data  |-> r.data,
          sop   |-> r.sop,
          eop   |-> RXSees(sink, primitives.EOF),
          error |-> FALSE]
    ELSE [NoWord EXCEPT !.data = r.data]

\* pipeline.sink: the word the FSM presents to descrambler and CRC checker
RXPipelineSink(r, sink) ==
    IF r.state = "COPY"
    THEN [stb   |-> RXDataStb(sink) \/ RXSees(sink, primitives.EOF),
          data  |-> r.data,
          sop   |-> r.sop,
          eop   |-> RXSees(sink, primitives.EOF),
          error |-> FALSE]
    ELSE [NoWord EXCEPT !.data = r.data]

\* crc.sink: the descrambled word
RXDescrambled(r, sink) ==
    LiteSATAScramblerSource(r.context, RXPipelineSink(r, sink))

\* source.stb
RXSourceStb(r, sink) ==
    CheckerSourceStb(r.crc, RXPipelineSink(r, sink))

\* source: what the CRC checker presents
RXSource(r, sink) == CheckerSource(r.crc, RXDescrambled(r, sink))

\* pipeline.sink.ack (nothing in LiteSATALinkRX reads it)
RXPipelineAck(r, sink, source_ack) ==
    CheckerSinkAck(r.crc, RXDescrambled(r, sink), source_ack)

\* RXInsert with no primitive requested in WAIT_FIRST
RXInsert_NoneInWaitFirst(r, sink, hold) ==
    CASE r.state = "IDLE"       -> Zero
      [] r.state = "RDY"        -> primitives.R_RDY
      [] r.state = "WAIT_FIRST" -> Zero
      [] r.state = "COPY"       ->
            IF RXPrimitiveStb(sink)
            THEN IF sink.data = primitives.HOLD THEN primitives.HOLDA
                 ELSE primitives.R_IP
            ELSE IF hold THEN primitives.HOLD
            ELSE primitives.R_IP
      [] r.state = "EOF"        -> primitives.R_IP
      [] r.state = "WTRM"       -> primitives.R_IP
      [] r.state = "R_OK"       -> primitives.R_OK
      [] r.state = "R_ERR"      -> primitives.R_ERR

\* insert: the primitive the FSM asks TX to send (Zero: none)
RXInsert(r, sink, hold) ==
    CASE r.state = "IDLE"       -> Zero
      [] r.state = "RDY"        -> primitives.R_RDY
      [] r.state = "WAIT_FIRST" -> primitives.R_IP
      [] r.state = "COPY"       ->
            IF RXPrimitiveStb(sink)
            THEN IF sink.data = primitives.HOLD THEN primitives.HOLDA
                 ELSE primitives.R_IP
            ELSE IF hold THEN primitives.HOLD
            ELSE primitives.R_IP
      [] r.state = "EOF"        -> primitives.R_IP
      [] r.state = "WTRM"       -> primitives.R_IP
      [] r.state = "R_OK"       -> primitives.R_OK
      [] r.state = "R_ERR"      -> primitives.R_ERR

\* to_tx
RXToTX(r, sink, hold) ==
    [idle          |-> r.state = "IDLE",
     insert        |-> RXInsert(r, sink, hold),
     primitive_stb |-> RXPrimitiveStb(sink),
     primitive     |-> sink.data]

\* RXNextState with the test of crc_error in WTRM inverted
RXNextState_InvertedStatus(r, sink) ==
    CASE r.state = "IDLE" ->
            IF RXSees(sink, primitives.X_RDY) THEN "RDY" ELSE "IDLE"
      [] r.state = "RDY" ->
            IF RXSees(sink, primitives.SOF) THEN "WAIT_FIRST" ELSE "RDY"
      [] r.state = "WAIT_FIRST" ->
            IF RXDataStb(sink) THEN "COPY" ELSE "WAIT_FIRST"
      [] r.state = "COPY" ->
            IF RXSees(sink, primitives.EOF) THEN "WTRM" ELSE "COPY"
      [] r.state = "EOF" ->
            IF RXSees(sink, primitives.WTRM) THEN "WTRM" ELSE "EOF"
      [] r.state = "WTRM" ->
            IF r.crc_error THEN "R_OK" ELSE "R_ERR"
      [] r.state = "R_OK" ->
            IF RXSees(sink, primitives.SYNC) THEN "IDLE" ELSE "R_OK"
      [] r.state = "R_ERR" ->
            IF RXSees(sink, primitives.SYNC) THEN "IDLE" ELSE "R_ERR"

RXNextState(r, sink) ==
    CASE r.state = "IDLE" ->
            IF RXSees(sink, primitives.X_RDY) THEN "RDY" ELSE "IDLE"
      [] r.state = "RDY" ->
            IF RXSees(sink, primitives.SOF) THEN "WAIT_FIRST" ELSE "RDY"
      [] r.state = "WAIT_FIRST" ->
            IF RXDataStb(sink) THEN "COPY" ELSE "WAIT_FIRST"
      [] r.state = "COPY" ->
            IF RXSees(sink, primitives.EOF) THEN "WTRM" ELSE "COPY"
      [] r.state = "EOF" ->
            IF RXSees(sink, primitives.WTRM) THEN "WTRM" ELSE "EOF"
      [] r.state = "WTRM" ->
            IF ~r.crc_error THEN "R_OK" ELSE "R_ERR"
      [] r.state = "R_OK" ->
            IF RXSees(sink, primitives.SYNC) THEN "IDLE" ELSE "R_OK"
      [] r.state = "R_ERR" ->
            IF RXSees(sink, primitives.SYNC) THEN "IDLE" ELSE "R_ERR"

\* RXNext without sop_clr: sop stays set after the first word
RXNext_SopNotCleared(r, sink, source_ack) ==
    LET source  == RXSource(r, sink)
        sop_set == r.state = "WAIT_FIRST"
    IN  [state     |-> RXNextState(r, sink),
         sop       |-> IF sop_set THEN TRUE ELSE r.sop,
         crc_error |-> IF source.stb /\ source.eop /\ source_ack
                       THEN source.error ELSE r.crc_error,
         data      |-> IF RXDataStb(sink) THEN sink.data ELSE r.data,
         context   |-> LiteSATAScramblerNext(r.context,
                          RXPipelineSink(r, sink),
                          RXPipelineAck(r, sink, source_ack),
                          r.state = "IDLE"),
         crc       |-> CheckerNext(r.crc, RXDescrambled(r, sink), source_ack)]

\* RXNext without descrambler.reset in IDLE
RXNext_NoDescramblerReset(r, sink, source_ack) ==
    LET source  == RXSource(r, sink)
        sop_set == r.state = "WAIT_FIRST"
        sop_clr == r.state = "COPY" /\ RXDataStb(sink)
    IN  [state     |-> RXNextState(r, sink),
         sop       |-> IF sop_clr THEN FALSE
                       ELSE IF sop_set THEN TRUE ELSE r.sop,
         crc_error |-> IF source.stb /\ source.eop /\ source_ack
                       THEN source.error ELSE r.crc_error,
         data      |-> IF RXDataStb(sink) THEN sink.data ELSE r.data,
         context   |-> LiteSATAScramblerNext(r.context,
                          RXPipelineSink(r, sink),
                          RXPipelineAck(r, sink, source_ack),
                          FALSE),
         crc       |-> CheckerNext(r.crc, RXDescrambled(r, sink), source_ack)]

RXNext(r, sink, source_ack) ==
    LET source  == RXSource(r, sink)
        sop_set == r.state = "WAIT_FIRST"
        sop_clr == r.state = "COPY" /\ RXDataStb(sink)
    IN  [state     |-> RXNextState(r, sink),
         sop       |-> IF sop_clr THEN FALSE
                       ELSE IF sop_set THEN TRUE ELSE r.sop,
         crc_error |-> IF source.stb /\ source.eop /\ source_ack
                       THEN source.error ELSE r.crc_error,
         data      |-> IF RXDataStb(sink) THEN sink.data ELSE r.data,
         context   |-> LiteSATAScramblerNext(r.context,
                          RXPipelineSink(r, sink),
                          RXPipelineAck(r, sink, source_ack),
                          r.state = "IDLE"),
         crc       |-> CheckerNext(r.crc, RXDescrambled(r, sink), source_ack)]

\* =================================================================== state

VARIABLES
    crcI,   \* registers of a LiteSATACRCInserter
    crcC,   \* registers of a LiteSATACRCChecker
    inp,    \* the inputs the modules sample in the current clock cycle
    scr,    \* contexts of two LiteSATAScramblers in a row (a, b); n counts
            \* the words accepted since the last reset
    contI,  \* registers of a LiteSATACONTInserter
    contR,  \* registers of a LiteSATACONTRemover
    tx,     \* registers of the LiteSATALinkTX of a link
    rx,     \* registers of the LiteSATALinkRX of the link at the other end
    peer,   \* registers of the other two halves: rx, the LiteSATALinkRX next
            \* to tx, and tx, the LiteSATALinkTX next to rx
    wire,   \* the words in flight between the two links: fwd from tx to rx,
            \* rev from peer.tx to peer.rx
    feed,   \* the packet streamer in front of the modules
    got     \* the words transferred to the logger behind the modules

vars == <<crcI, crcC, scr, contI, contR, tx, rx, peer, wire, inp, feed, got>>

\* the registers a specification does not use stay at their reset values
IdleCRC == crcI = InserterReset /\ crcC = CheckerReset
IdleScr == scr = [a |-> ScramblerReset, b |-> ScramblerReset, n |-> 0]
IdleCONT == contI = CONTInserterReset /\ contR = CONTRemoverReset
IdleLink ==
    /\ tx = TXReset
    /\ rx = RXReset
    /\ peer = [rx |-> RXReset, tx |-> TXReset]
    /\ wire = [fwd |-> NoPhyWord, rev |-> NoPhyWord]

\* ------------------------------------------------------------------ bounds

MaxLen  == 2    \* words of a packet
MaxPkts == 2    \* packets of a run
MaxRun  == 5    \* words scrambled between two resets
MaxStream == 6  \* words of a phy stream
MaxWire == 4    \* data words a peer puts on the wire in a run
MaxFrames == 2  \* frames a peer ends in a run
MaxLinkLen == 4 \* words of a packet sent from link to link
MaxJunk == 1    \* words without sop presented ahead of the last packet
MaxClosed == 2  \* re-emissions counted ahead of one word
MaxEng == 3     \* applications of the CRC engine in a chain

\* the data words of the packets
DataWords == {Zero, init}

Packets == UNION {[1..n -> DataWords] : n \in 1..MaxLen}

PacketSeqs == UNION {[1..m -> Packets] : m \in 1..MaxPkts}

\* a packet of n words: a first, then b
PatternPacket(n, a, b) == [k \in 1..n |-> IF k = 1 THEN a ELSE b]

\* runs of packets of any lengths up to maxlen, all of one pattern a, b
PatternSeqs(maxlen, A, B) ==
    UNION {{[k \in 1..m |-> PatternPacket(len[k], a, b)] :
               a \in A, b \in B, len \in [1..m -> 1..maxlen]} :
           m \in 1..MaxPkts}

\* the word the streamer presents: word i of packet p, sop on the first word
\* and eop on the last
StreamerWord(f, stb) ==
    IF stb /\ f.p <= Len(f.pkts)
    THEN [stb |-> TRUE, data |-> f.pkts[f.p][f.i], sop |-> f.i = 1,
          eop |-> f.i = Len(f.pkts[f.p]), error |-> FALSE]
    ELSE NoWord

StreamerNext(f, ack) ==
    IF ~ack \/ f.p > Len(f.pkts) THEN f
    ELSE IF f.i = Len(f.pkts[f.p]) THEN [f EXCEPT !.p = f.p + 1, !.i = 1]
    ELSE [f EXCEPT !.i = f.i + 1]

\* what the logger keeps of a transferred word (error is sampled on eop)
Logged(w) == [data |-> w.data, sop |-> w.sop, eop |-> w.eop,
              error |-> w.eop /\ w.error]

\* ========================================================== CRC round trip
\* streamer -> LiteSATACRCInserter -> (one bit flipped or none) ->
\* LiteSATACRCChecker -> logger, with stalls on both ends

NoFlip == [n |-> 0, bit |-> 0]

\* the word between inserter and checker: bit feed.flip.bit of the
\* feed.flip.n-th word of the run is inverted
Corrupt(f, w) ==
    IF w.stb /\ f.flip.n = f.xfer + 1
    THEN [w EXCEPT !.data = XOR(w.data, {f.flip.bit})]
    ELSE w

InitCRC ==
    /\ IdleCRC
    /\ IdleScr
    /\ IdleCONT
    /\ IdleLink
    /\ inp \in [stb : BOOLEAN, ack : BOOLEAN]
    /\ \E pkts \in PacketSeqs :
         \E flip \in {NoFlip} \cup
                     {fl \in [n : 1..(MaxLen + 1), bit : 0..(width - 1)] :
                        Len(pkts) = 1 /\ fl.n <= Len(pkts[1]) + 1} :
            feed = [pkts |-> pkts, p |-> 1, i |-> 1, xfer |-> 0, flip |-> flip]
    /\ got = << >>

TickCRC ==
    LET sink     == StreamerWord(feed, inp.stb)
        mid      == Corrupt(feed, InserterSource(crcI, sink))
        source   == CheckerSource(crcC, mid)
        mid_ack  == CheckerSinkAck(crcC, mid, inp.ack)
        sink_ack == InserterSinkAck(crcI, sink, mid_ack)
        fed      == StreamerNext(feed, sink.stb /\ sink_ack)
    IN  /\ crcI' = InserterNext(crcI, sink, mid_ack)
        /\ crcC' = CheckerNext(crcC, mid, inp.ack)
        /\ feed' = [fed EXCEPT !.xfer = IF mid.stb /\ mid_ack
                                        THEN feed.xfer + 1 ELSE feed.xfer]
        /\ got' = IF source.stb /\ inp.ack
                  THEN Append(got, Logged(source)) ELSE got
        /\ inp' \in [stb : BOOLEAN, ack : BOOLEAN]
        /\ UNCHANGED <<scr, contI, contR, tx, rx, peer, wire>>

NextCRC == TickCRC

SpecCRC == InitCRC /\ [][NextCRC]_vars

\* the words the logger must see for the packets fed: every packet as
\* submitted, sop on its first word, eop on its last, no error
RECURSIVE Flatten(_)
Flatten(pkts) ==
    IF pkts = << >> THEN << >>
    ELSE LET pk == Head(pkts)
         IN  [k \in 1..Len(pk) |->
                 [data |-> pk[k], sop |-> k = 1, eop |-> k = Len(pk),
                  error |-> FALSE]] \o Flatten(Tail(pkts))

IsPrefix(s, t) == Len(s) <= Len(t) /\ \A k \in 1..Len(s) : s[k] = t[k]

\* every packet fed, and its trailer accepted by the checker
DrainedCRC == feed.p > Len(feed.pkts) /\ crcI.state = "IDLE"

\* C1: CRC round-trip. Without corruption between inserter and checker the
\* logger sees exactly the words submitted, in order, sop on the first word
\* of each packet, eop on the last, and error clear on the eop transfer;
\* once the last trailer is through, all of them.
C1_RoundTrip ==
    feed.flip = NoFlip =>
        /\ IsPrefix(got, Flatten(feed.pkts))
        /\ DrainedCRC => got = Flatten(feed.pkts)

\* a run of MaxPkts packets has been delivered whole, the last eop without error
C1_Witness ==
    /\ feed.flip = NoFlip
    /\ Len(feed.pkts) = MaxPkts
    /\ DrainedCRC
    /\ got = Flatten(feed.pkts)
    /\ got[Len(got)].eop /\ ~got[Len(got)].error

\* C9: CRC sensitivity. With exactly one bit of one word (payload or
\* trailer) inverted between inserter and checker, the checker reports
\* error on the eop transfer, and that transfer happens.
C9_Sensitivity ==
    feed.flip # NoFlip =>
        /\ \A k \in 1..Len(got) : got[k].eop => got[k].error
        /\ DrainedCRC => (got # << >> /\ got[Len(got)].eop)

\* a packet whose trailer was corrupted has been delivered with error set
C9_Witness ==
    /\ feed.flip # NoFlip
    /\ feed.flip.n = Len(feed.pkts[1]) + 1
    /\ DrainedCRC
    /\ got[Len(got)].eop /\ got[Len(got)].error

\* a packet whose payload was corrupted has been delivered with error set
C9_WitnessPayload ==
    /\ feed.flip # NoFlip
    /\ feed.flip.n = 1
    /\ DrainedCRC
    /\ got[Len(got)].eop /\ got[Len(got)].error

\* ===================================================== scrambler involution
\* source -> LiteSATAScrambler a -> LiteSATAScrambler b -> sink: both are
\* reset in the same cycles and see the same transfers

\* the words scrambled: the data words, a word that looks like a primitive
\* and the word of all ones
ScrWords == DataWords \cup {primitives.HOLD, 0..31}

ScrInputs ==
    [stb : BOOLEAN, ack : BOOLEAN, reset : BOOLEAN, data : ScrWords]

\* the word presented to scrambler a in this cycle
ScrSink == [NoWord EXCEPT !.stb = inp.stb, !.data = inp.data]

\* the word scrambler a presents to scrambler b
ScrMid == LiteSATAScramblerSource(scr.a, ScrSink)

\* the word scrambler b presents
ScrSource == LiteSATAScramblerSource(scr.b, ScrMid)

InitScr ==
    /\ IdleCRC
    /\ IdleScr
    /\ IdleCONT
    /\ IdleLink
    /\ inp \in ScrInputs
    /\ feed = << >>
    /\ got = << >>

TickScr ==
    LET accepted == inp.stb /\ inp.ack
    IN  /\ ~inp.reset /\ accepted => scr.n < MaxRun
        /\ scr' = [a |-> LiteSATAScramblerNext(scr.a, ScrSink, inp.ack,
                                               inp.reset),
                   b |-> LiteSATAScramblerNext(scr.b, ScrMid, inp.ack,
                                               inp.reset),
                   n |-> IF inp.reset THEN 0
                         ELSE IF accepted THEN scr.n + 1 ELSE scr.n]
        /\ inp' \in ScrInputs
        /\ UNCHANGED <<crcI, crcC, contI, contR, tx, rx, peer, wire, feed, got>>

NextScr == TickScr

SpecScr == InitScr /\ [][NextScr]_vars

\* the context n accepted words after a reset
RECURSIVE ContextAfter(_)
ContextAfter(n) ==
    IF n = 0 THEN ScramblerReset ELSE ScramblerNextContext(ContextAfter(n - 1))

\* C8: scrambler involution. The second scrambler's output equals the first
\* one's input on every word; each context is 0xF0F6 after a reset and has
\* advanced exactly once per accepted word since.
C8_Involution ==
    /\ ScrSource = ScrSink
    /\ scr.a = scr.b
    /\ scr.n = 0 => scr.a = ScramblerReset
    /\ scr.a = ContextAfter(scr.n)

\* the last word of a run of MaxRun words is on the wire, scrambled to
\* something else than itself, and comes out as it went in
C8_Witness ==
    /\ scr.n = MaxRun - 1
    /\ inp.stb /\ inp.ack /\ ~inp.reset
    /\ ScrMid.data # ScrSink.data
    /\ scr.a # ScramblerReset
    /\ ScrSource.data = inp.data

\* ========================================================= CONT round trip
\* streamer -> LiteSATACONTInserter -> LiteSATACONTRemover -> logger, with
\* stalls on both ends (the test bench of test/link_cont_tb.py)
\* feed: the stream and the position of the streamer; out, the last two
\* words transferred at the output of the inserter; closed, the number of
\* times the last primitive was re-emitted ahead of the word now at the sink
\* filled, the last word transferred at the output of the inserter was a
\* CONT marker or a data word in the place of a control word (filler)

\* the words of a phy stream: two primitives and the data words
PhyWords ==
    {[data |-> primitives.SYNC, charisk |-> 1],
     [data |-> primitives.HOLD, charisk |-> 1]}
    \cup {[data |-> d, charisk |-> 0] : d \in DataWords}

PhyStreams == UNION {[1..n -> PhyWords] : n \in 1..MaxStream}

\* the word the streamer presents: word i of the stream
PhyStreamerWord(f, stb) ==
    IF stb /\ f.i <= Len(f.stream)
    THEN [stb |-> TRUE, data |-> f.stream[f.i].data,
          charisk |-> f.stream[f.i].charisk]
    ELSE NoPhyWord

PhyLogged(w) == [data |-> w.data, charisk |-> w.charisk]

\* the last two words of a log
LastTwo(log) == IF Len(log) <= 2 THEN log ELSE Tail(log)

InitCONT ==
    /\ IdleCRC
    /\ IdleScr
    /\ IdleCONT
    /\ IdleLink
    /\ inp \in [stb : BOOLEAN, ack : BOOLEAN]
    /\ \E st \in PhyStreams :
           feed = [stream |-> st, i |-> 1, out |-> << >>, closed |-> 0,
                   filled |-> FALSE]
    /\ got = << >>

TickCONT ==
    LET sink     == PhyStreamerWord(feed, inp.stb)
        mid      == CONTInserterSource(contI, sink)
        source   == CONTRemoverSource(contR, mid)
        mid_ack  == inp.ack
        sink_ack == CONTInserterSinkAck(contI, sink, mid_ack)
    IN  /\ contI' = CONTInserterNext(contI, sink, mid_ack)
        /\ contR' = CONTRemoverNext(contR, mid, inp.ack)
        /\ feed' = [feed EXCEPT
                       !.i = IF sink.stb /\ sink_ack THEN @ + 1 ELSE @,
                       !.out = IF mid.stb /\ mid_ack
                               THEN LastTwo(Append(@, PhyLogged(mid))) ELSE @,
                       !.closed = IF sink.stb /\ sink_ack THEN 0
                                  ELSE IF CONTInserterReinsert(contI, sink)
                                          /\ mid_ack
                                  THEN (IF @ < MaxClosed THEN @ + 1 ELSE @)
                                  ELSE @,
                       !.filled = IF mid.stb /\ mid_ack
                                  THEN \/ (mid.charisk # 0
                                           /\ mid.data = primitives.CONT)
                                       \/ (mid.charisk = 0
                                           /\ sink.charisk # 0)
                                  ELSE @]
        /\ got' = IF source.stb /\ inp.ack
                  THEN Append(got, PhyLogged(source)) ELSE got
        /\ inp' \in [stb : BOOLEAN, ack : BOOLEAN]
        /\ UNCHANGED <<crcI, crcC, scr, tx, rx, peer, wire>>

NextCONT == TickCONT

SpecCONT == InitCONT /\ [][NextCONT]_vars

\* every word of the stream has been accepted by the inserter
DrainedCONT == feed.i > Len(feed.stream)

\* C2: CONT round-trip. The words the logger receives behind the remover
\* are, word for word (data and control flag), the words fed to the
\* inserter: always a prefix of the stream and, once the stream has been
\* accepted, the whole stream, no primitive added or removed.
C2_RoundTrip ==
    /\ IsPrefix(got, feed.stream)
    /\ DrainedCONT => got = feed.stream

\* =============================================== LiteSATALinkRX and a peer
\* a peer that may put any word on the wire in any cycle -> LiteSATALinkRX
\* -> a consumer that may stall; hold is free.  feed is the monitor of the
\* wire: frame, the data words received since SOF; exp, the payload the
\* frames ended so far carry; n, the data words seen; frames, the frames
\* ended; short, a frame of less than two data words was ended; refused,
\* the consumer stalled a word RX offered; pktErr, the CRC checker's error
\* flag in the cycle of the last EOF; eopXfer, the consumer took the eop
\* word in that cycle; sync, the peer sends nothing but SYNC any more.

RECURSIVE CRCOf(_, _)
\* the CRC register after the words of s, from reg
CRCOf(reg, s) == IF s = << >> THEN reg ELSE CRCOf(CRCEngine(reg, Head(s)), Tail(s))

\* word k of a packet on the wire, scrambled from the seed on
Scrambled(s) == [k \in 1..Len(s) |-> XOR(s[k], ScramblerValue(ContextAfter(k - 1)))]

\* the data words TX puts on the wire for a packet: payload and CRC,
\* scrambled
WireFrame(pkt) == Scrambled(Append(pkt, CRCOf(init, pkt)))

\* the data words of the peer: those of the one-word packet 0x00000000
WireDataWords == {WireFrame(<<Zero>>)[k] : k \in 1..2}

Primitive(p) == [stb |-> TRUE, data |-> p, charisk |-> 1]

WireWords ==
    {NoPhyWord}
    \cup {Primitive(p) : p \in {primitives.SYNC, primitives.X_RDY,
                                primitives.SOF, primitives.EOF,
                                primitives.HOLD, primitives.HOLDA}}
    \cup {[stb |-> TRUE, data |-> d, charisk |-> 0] : d \in WireDataWords}

\* the inputs of a cycle the monitor allows.  hold is read in COPY only and
\* source.ack only when the CRC checker holds a word in COPY: where the
\* registers r make an input unread it is kept at one value, hold until the
\* peer sends nothing but SYNC (from then on it is free in every state).
RXInputs(f, r) ==
    {i \in [word : WireWords, hold : BOOLEAN, ack : BOOLEAN] :
        /\ f.sync => i.word = Primitive(primitives.SYNC)
        /\ f.n >= MaxWire => ~RXDataStb(i.word)
        /\ f.frames >= MaxFrames => i.word # Primitive(primitives.SOF)
        /\ (r.state # "COPY" /\ ~f.sync) => ~i.hold
        /\ ~RXSourceStb(r, i.word) => i.ack}

MonitorReset ==
    [frame |-> << >>, exp |-> << >>, n |-> 0, frames |-> 0, short |-> FALSE,
     refused |-> FALSE, pktErr |-> FALSE, eopXfer |-> FALSE, sync |-> FALSE]

\* what a frame of data words delivers: all but the last, descrambled, sop
\* on the first and eop on the last of them
Payload(frame) ==
    [k \in 1..(Len(frame) - 1) |->
        [data |-> XOR(frame[k], ScramblerValue(ContextAfter(k - 1))),
         sop |-> k = 1, eop |-> k = Len(frame) - 1]]

MonitorNext(f, r, i, sync) ==
    LET inFrame == r.state \in {"WAIT_FIRST", "COPY"}
        isEOF   == r.state = "COPY" /\ RXSees(i.word, primitives.EOF)
        frame   == IF inFrame /\ RXDataStb(i.word)
                   THEN Append(f.frame, i.word.data) ELSE f.frame
        source  == RXSource(r, i.word)
    IN  [frame   |-> IF isEOF THEN << >> ELSE frame,
         exp     |-> IF isEOF THEN f.exp \o Payload(f.frame) ELSE f.exp,
         n       |-> IF RXDataStb(i.word) THEN f.n + 1 ELSE f.n,
         frames  |-> IF isEOF THEN f.frames + 1 ELSE f.frames,
         short   |-> f.short \/ (isEOF /\ Len(f.frame) < 2),
         refused |-> f.refused \/ (RXPipelineSink(r, i.word).stb
                                   /\ ~RXPipelineAck(r, i.word, i.ack)),
         pktErr  |-> IF isEOF THEN source.error ELSE f.pktErr,
         eopXfer |-> IF isEOF THEN source.stb /\ i.ack ELSE f.eopXfer,
         sync    |-> sync]

InitRX ==
    /\ IdleCRC
    /\ IdleScr
    /\ IdleCONT
    /\ IdleLink
    /\ feed = MonitorReset
    /\ inp \in RXInputs(feed, rx)
    /\ got = << >>

TickRX ==
    LET source == RXSource(rx, inp.word)
    IN  /\ rx' = RXNext(rx, inp.word, inp.ack)
        /\ \E sync \in {feed.sync, TRUE} :
              feed' = MonitorNext(feed, rx, inp, sync)
        /\ got' = IF source.stb /\ inp.ack
                  THEN Append(got, Logged(source)) ELSE got
        /\ inp' \in RXInputs(feed', rx')
        /\ UNCHANGED <<crcI, crcC, scr, contI, contR, tx, peer, wire>>

NextRX == TickRX

SpecRX == InitRX /\ [][NextRX]_vars

\* the clock never stops
FairSpecRX == SpecRX /\ WF_vars(NextRX)

\* data, sop and eop of the words the consumer took
WordsOf(log) ==
    [k \in 1..Len(log) |->
        [data |-> log[k].data, sop |-> log[k].sop, eop |-> log[k].eop]]

\* data and sop of words
DataOf(s) == [k \in 1..Len(s) |-> [data |-> s[k].data, sop |-> s[k].sop]]

\* the words the frames ended and the frame under way are to deliver
Expected(f) ==
    DataOf(f.exp) \o (IF f.frame = << >> THEN << >> ELSE DataOf(Payload(f.frame)))

\* RX is between two frames
BetweenFrames == rx.state \notin {"WAIT_FIRST", "COPY"}

StatusFor(err) == IF err THEN "R_ERR" ELSE "R_OK"

\* in R_OK / R_ERR the matching primitive is requested, and the state is
\* left for IDLE only, on the peer's SYNC
StatusStates ==
    /\ rx.state = "R_OK" =>
          RXInsert(rx, inp.word, inp.hold) = primitives.R_OK
    /\ rx.state = "R_ERR" =>
          RXInsert(rx, inp.word, inp.hold) = primitives.R_ERR
    /\ (rx.state \in {"R_OK", "R_ERR"} /\ rx'.state # rx.state) =>
          (rx'.state = "IDLE" /\ RXSees(inp.word, primitives.SYNC))

C5_HoldRequested ==
    (/\ rx.state = "COPY"
     /\ inp.hold
     /\ ~RXSees(inp.word, primitives.EOF)
     /\ ~RXSees(inp.word, primitives.HOLD))
    => RXInsert(rx, inp.word, inp.hold) = primitives.HOLD

\* C6: once the peer sends nothing but SYNC, the RX FSM eventually is in
\* IDLE.
C6_Resync == feed.sync ~> (rx.state = "IDLE")

\* ============================================ LiteSATALinkTX and its inputs
\* streamer -> LiteSATALinkTX -> a phy that may stall, with the from_rx
\* record free among the values a LiteSATALinkRX drives: idle exactly when
\* it requests no insert (link.py 615-621, 687-692).  got keeps the data
\* words the phy took.

FromRXInserts == {Zero, primitives.R_RDY, primitives.HOLD}

FromRXPrimitives ==
    {primitives.SYNC, primitives.R_RDY, primitives.HOLD, primitives.R_IP,
     primitives.R_OK}

\* primitive is read with primitive_stb only and source.ack in SOF, COPY and
\* EOF only: where unread each is kept at one value
TXInputs(r) ==
    {i \in [stb : BOOLEAN, ack : BOOLEAN,
            from_rx : [idle : BOOLEAN, insert : FromRXInserts,
                       primitive_stb : BOOLEAN,
                       primitive : FromRXPrimitives]] :
        /\ i.from_rx.idle <=> i.from_rx.insert = Zero
        /\ ~i.from_rx.primitive_stb => i.from_rx.primitive = primitives.SYNC
        /\ r.state \notin {"SOF", "COPY", "EOF"} => i.ack}

InitTX ==
    /\ IdleCRC
    /\ IdleScr
    /\ IdleCONT
    /\ IdleLink
    /\ inp \in TXInputs(tx)
    /\ \E pkts \in PatternSeqs(MaxLen, {Zero}, {init}) :
          feed = [pkts |-> pkts, p |-> 1, i |-> 1]
    /\ got = << >>

TickTX ==
    LET sink   == StreamerWord(feed, inp.stb)
        source == TXSource(tx, sink, inp.from_rx)
    IN  /\ tx' = TXNext(tx, sink, inp.from_rx, inp.ack)
        /\ feed' = StreamerNext(feed,
                      sink.stb /\ TXSinkAck(tx, sink, inp.from_rx, inp.ack))
        /\ got' = IF source.stb /\ inp.ack /\ source.charisk = 0
                  THEN Append(got, source.data) ELSE got
        /\ inp' \in TXInputs(tx')
        /\ UNCHANGED <<crcI, crcC, scr, contI, contR, rx, peer, wire>>

NextTX == TickTX

SpecTX == InitTX /\ [][NextTX]_vars

\* the output of the current cycle
TXOut == TXSource(tx, StreamerWord(feed, inp.stb), inp.from_rx)

\* the primitive of the FSM's state in the current cycle
TXOwn == TXInsert(tx, StreamerWord(feed, inp.stb), inp.from_rx)

\* the payload pipeline's word of the current cycle
TXPipe == TXPipelineSource(tx, StreamerWord(feed, inp.stb))

\* C7: TX output multiplexer priority. A non-zero from_rx.insert is on the
\* output, valid, with the control flag; else a non-zero primitive of the
\* FSM's state is, valid, with the control flag; a word without the control
\* flag is on the output only when both are zero and the FSM is in COPY, and
\* then it is the payload pipeline's word.
C7_MuxPriority ==
    /\ inp.from_rx.insert # Zero =>
          TXOut = [stb |-> TRUE, data |-> inp.from_rx.insert, charisk |-> 1]
    /\ (inp.from_rx.insert = Zero /\ TXOwn # Zero) =>
          TXOut = [stb |-> TRUE, data |-> TXOwn, charisk |-> 1]
    /\ (TXOut.stb /\ TXOut.charisk = 0) =>
          /\ inp.from_rx.insert = Zero /\ TXOwn = Zero
          /\ tx.state = "COPY"
          /\ TXPipe.stb /\ TXOut.data = TXPipe.data
    /\ (inp.from_rx.insert = Zero /\ TXOwn = Zero /\ tx.state = "COPY") =>
          TXOut = [stb |-> TXPipe.stb, data |-> TXPipe.data, charisk |-> 0]

\* in COPY with a payload word ready, RX forces R_RDY: the output is R_RDY
\* and not the payload word
C7_Witness ==
    /\ tx.state = "COPY"
    /\ TXPipe.stb
    /\ inp.from_rx.insert = primitives.R_RDY
    /\ TXOut = [stb |-> TRUE, data |-> primitives.R_RDY, charisk |-> 1]

\* in RDY RX forces HOLD: the output is HOLD and not X_RDY
C7_WitnessOwn ==
    /\ tx.state = "RDY"
    /\ TXOwn = primitives.X_RDY
    /\ inp.from_rx.insert = primitives.HOLD
    /\ TXOut.data = primitives.HOLD

\* ================================================================ two links
\* streamer -> LiteSATALinkTX (tx) -> wire.fwd -> LiteSATALinkRX (rx) ->
\* logger, and back LiteSATALinkTX (peer.tx, nothing to send) -> wire.rev ->
\* LiteSATALinkRX (peer.rx), each RX wired to the TX next to it as in
\* LiteSATALink.  The wire takes a word every cycle and holds it for one;
\* the logger is always ready; hold of rx is free, hold of peer.rx is low.
\* feed.held: TX has been in HOLDA; feed.rcvd: the words of the frame in
\* progress that the descrambler of rx has handed to the CRC checker.

\* the inputs of a cycle: the streamer's valid and the hold of rx, each kept
\* at one value where nothing reads it
LinkInputs(f, r) ==
    {i \in [stb : BOOLEAN, hold : BOOLEAN] :
        /\ f.p > Len(f.pkts) => ~i.stb
        /\ r.state # "COPY" => ~i.hold}

InitLink ==
    /\ IdleCRC
    /\ IdleScr
    /\ IdleCONT
    /\ IdleLink
    /\ \E pkts \in PatternSeqs(MaxLinkLen, DataWords, {init}) :
          feed = [pkts |-> pkts, p |-> 1, i |-> 1, held |-> FALSE,
                  rcvd |-> << >>]
    /\ inp \in LinkInputs(feed, rx)
    /\ got = << >>

TickLink ==
    LET sink      == StreamerWord(feed, inp.stb)
        from_rx   == RXToTX(peer.rx, wire.rev, FALSE)
        back_from == RXToTX(rx, wire.fwd, inp.hold)
        source    == RXSource(rx, wire.fwd)
        pushed    == RXDescrambled(rx, wire.fwd)
        pushed_ack == RXPipelineAck(rx, wire.fwd, TRUE)
    IN  /\ tx' = TXNext(tx, sink, from_rx, TRUE)
        /\ rx' = RXNext(rx, wire.fwd, TRUE)
        /\ peer' = [rx |-> RXNext(peer.rx, wire.rev, TRUE),
                    tx |-> TXNext(peer.tx, NoWord, back_from, TRUE)]
        /\ wire' = [fwd |-> TXSource(tx, sink, from_rx),
                    rev |-> TXSource(peer.tx, NoWord, back_from)]
        /\ feed' = [StreamerNext(feed,
                       sink.stb /\ TXSinkAck(tx, sink, from_rx, TRUE))
                    EXCEPT !.held = feed.held \/ tx.state = "HOLDA",
                           !.rcvd = IF pushed.stb /\ pushed_ack
                                    THEN (IF pushed.sop THEN <<pushed.data>>
                                          ELSE Append(@, pushed.data))
                                    ELSE @]
        /\ got' = IF source.stb THEN Append(got, Logged(source)) ELSE got
        /\ inp' \in LinkInputs(feed', rx')
        /\ UNCHANGED <<crcI, crcC, scr, contI, contR>>

NextLink == TickLink

SpecLink == InitLink /\ [][NextLink]_vars

\* every packet fed, and TX back in IDLE after the peer's R_OK / R_ERR
DrainedLink == feed.p > Len(feed.pkts) /\ tx.state = "IDLE"

\* C3: end-to-end delivery. The words at the receiver's RX source are the
\* packets submitted at the sender's TX sink, in order, each word once, with
\* the data submitted, no CRC trailer and no primitive, sop on the first
\* word of a packet, eop on the last and error clear: always a prefix of
\* them and, once TX has ended the last packet, all of them.
C3_Delivery ==
    /\ IsPrefix(got, Flatten(feed.pkts))
    /\ DrainedLink => got = Flatten(feed.pkts)

\* MaxPkts packets of MaxLinkLen words were delivered whole, TX was held
\* off by the peer's HOLD on the way (feed.held), and both FSMs are back in
\* IDLE
C3_Witness ==
    /\ Len(feed.pkts) = MaxPkts
    /\ \A k \in 1..MaxPkts : Len(feed.pkts[k]) = MaxLinkLen
    /\ feed.held
    /\ DrainedLink
    /\ rx.state = "IDLE"
    /\ got = Flatten(feed.pkts)

\* ==================================================== LiteSATACRCChecker
\* streamer of packets with their CRC trailer -> LiteSATACRCChecker ->
\* logger, with stalls on both ends; the streamer may present the first word
\* of a packet right after the trailer of the one before.  feed.early: a
\* word was presented in the first cycle, with the FSM in its reset state
\* RESET.

\* the packets at the checker's sink: payload and CRC trailer
WithTrailer(pkts) ==
    [k \in 1..Len(pkts) |-> Append(pkts[k], CRCOf(init, pkts[k]))]

InitChk ==
    /\ IdleCRC
    /\ IdleScr
    /\ IdleCONT
    /\ IdleLink
    /\ inp \in [stb : BOOLEAN, ack : BOOLEAN]
    /\ \E pkts \in PacketSeqs :
          feed = [pkts |-> WithTrailer(pkts), p |-> 1, i |-> 1,
                  early |-> inp.stb]
    /\ got = << >>

TickChk ==
    LET sink   == StreamerWord(feed, inp.stb)
        source == CheckerSource(crcC, sink)
    IN  /\ crcC' = CheckerNext(crcC, sink, inp.ack)
        /\ feed' = StreamerNext(feed,
                      sink.stb /\ CheckerSinkAck(crcC, sink, inp.ack))
        /\ got' = IF source.stb /\ inp.ack
                  THEN Append(got, Logged(source)) ELSE got
        /\ inp' \in [stb : BOOLEAN, ack : BOOLEAN]
        /\ UNCHANGED <<crcI, scr, contI, contR, tx, rx, peer, wire>>

NextChk == TickChk

SpecChk == InitChk /\ [][NextChk]_vars

\* the packets fed, without their last word
Payloads(f) == [k \in 1..Len(f.pkts) |-> SubSeq(f.pkts[k], 1, Len(f.pkts[k]) - 1)]

\* every word of every packet accepted by the checker
DrainedChk == feed.p > Len(feed.pkts)

\* C11: the CRC checker strips the trailer. The words transferred at the
\* checker's source are the words of each packet without its trailer, in
\* order, sop on the first and eop on the last payload word: always a prefix
\* of them and, once the last trailer is accepted, all of them; this for
\* every stall pattern in which the streamer waits for the cycle after the
\* power-up RESET, the next packet's first word presented right after a
\* trailer included.
C11_TrailerStripped ==
    ~feed.early =>
        /\ IsPrefix(WordsOf(got), WordsOf(Flatten(Payloads(feed))))
        /\ DrainedChk => WordsOf(got) = WordsOf(Flatten(Payloads(feed)))

\* =================================================== LiteSATACRCInserter
\* streamer -> LiteSATACRCInserter -> logger, with stalls on both ends.  The
\* streamer presents feed.junk words without sop and eop ahead of its last
\* packet.

JunkWord == [stb |-> TRUE, data |-> init, sop |-> FALSE, eop |-> FALSE,
             error |-> FALSE]

\* the junk words are next: the last packet's first word is due
InsJunkDue(f) == f.junk > 0 /\ f.p = Len(f.pkts) /\ f.i = 1

InsStreamerWord(f, stb) ==
    IF stb /\ InsJunkDue(f) THEN JunkWord ELSE StreamerWord(f, stb)

InsStreamerNext(f, ack) ==
    IF InsJunkDue(f)
    THEN (IF ack THEN [f EXCEPT !.junk = f.junk - 1] ELSE f)
    ELSE StreamerNext(f, ack)

InitIns ==
    /\ IdleCRC
    /\ IdleScr
    /\ IdleCONT
    /\ IdleLink
    /\ inp \in [stb : BOOLEAN, ack : BOOLEAN]
    /\ \E pkts \in PacketSeqs : \E junk \in 0..MaxJunk :
          feed = [pkts |-> pkts, p |-> 1, i |-> 1, junk |-> junk]
    /\ got = << >>

TickIns ==
    LET sink   == InsStreamerWord(feed, inp.stb)
        source == InserterSource(crcI, sink)
    IN  /\ crcI' = InserterNext(crcI, sink, inp.ack)
        /\ feed' = InsStreamerNext(feed,
                      sink.stb /\ InserterSinkAck(crcI, sink, inp.ack))
        /\ got' = IF source.stb /\ inp.ack
                  THEN Append(got, [data |-> source.data, sop |-> source.sop,
                                    eop |-> source.eop])
                  ELSE got
        /\ inp' \in [stb : BOOLEAN, ack : BOOLEAN]
        /\ UNCHANGED <<crcC, scr, contI, contR, tx, rx, peer, wire>>

NextIns == TickIns

SpecIns == InitIns /\ [][NextIns]_vars

\* the sink word of the current cycle
InsSink == InsStreamerWord(feed, inp.stb)

\* what the source is to transfer for a packet: its words with eop clear,
\* sop on the first, then the CRC of the words with eop
Framed(pkt) ==
    [k \in 1..(Len(pkt) + 1) |->
        IF k <= Len(pkt)
        THEN [data |-> pkt[k], sop |-> k = 1, eop |-> FALSE]
        ELSE [data |-> CRCOf(init, pkt), sop |-> FALSE, eop |-> TRUE]]

RECURSIVE FramedAll(_)
FramedAll(pkts) ==
    IF pkts = << >> THEN << >>
    ELSE Framed(Head(pkts)) \o FramedAll(Tail(pkts))

\* every packet fed and its trailer taken
DrainedIns == feed.p > Len(feed.pkts) /\ crcI.state = "IDLE"

\* C12: CRC inserter framing. The words transferred at the source are, for
\* each packet of N words, the N words in order with eop clear and sop on
\* the first, then one word with eop equal to the CRC register after the N
\* words; in INSERT no sink word is acknowledged; busy is set exactly when
\* the FSM is not in IDLE.
C12_Framing ==
    /\ IsPrefix(got, FramedAll(feed.pkts))
    /\ DrainedIns => got = FramedAll(feed.pkts)
    /\ crcI.state = "INSERT" =>
          /\ ~InserterSinkAck(crcI, InsSink, inp.ack)
          /\ InserterSource(crcI, InsSink).stb
          /\ InserterSource(crcI, InsSink).data = crcI.reg
    /\ InserterBusy(crcI) <=> crcI.state \in {"COPY", "INSERT"}

\* MaxPkts packets of MaxLen words went through, each followed by its
\* trailer
C12_Witness ==
    /\ Len(feed.pkts) = MaxPkts
    /\ \A k \in 1..MaxPkts : Len(feed.pkts[k]) = MaxLen
    /\ DrainedIns
    /\ Len(got) = MaxPkts * (MaxLen + 1)
    /\ got[Len(got)].eop
    /\ got[Len(got)].data = CRCOf(init, feed.pkts[MaxPkts])

\* C13 as claimed: in IDLE a word presented at the sink is acknowledged only
\* if it carries sop.
C13_IdleAcksSopOnly ==
    (crcI.state = "IDLE" /\ InsSink.stb /\ InserterSinkAck(crcI, InsSink, inp.ack))
        => InsSink.sop

\* C13 amended: in IDLE a word presented at the sink is acknowledged exactly
\* if it does not carry sop, whatever the source's ready; nothing is offered
\* at the source in IDLE, so an acknowledged word is discarded, and a word
\* with sop waits for COPY.
C13_IdleAcksAllButSop ==
    (crcI.state = "IDLE" /\ InsSink.stb) =>
        /\ InserterSinkAck(crcI, InsSink, inp.ack) <=> ~InsSink.sop
        /\ ~InserterSource(crcI, InsSink).stb
        /\ InsSink.sop => InserterNext(crcI, InsSink, inp.ack).state = "COPY"

\* in IDLE, after a packet, a word without sop is at the sink, the source
\* not ready
C13_Witness ==
    /\ crcI.state = "IDLE"
    /\ got # << >>
    /\ InsSink.stb /\ ~InsSink.sop
    /\ ~inp.ack
    /\ InserterSinkAck(crcI, InsSink, inp.ack)

\* in IDLE, after a packet, a word with sop is at the sink
C13_WitnessSop ==
    /\ crcI.state = "IDLE"
    /\ got # << >>
    /\ InsSink.stb /\ InsSink.sop
    /\ ~InserterSinkAck(crcI, InsSink, inp.ack)

\* ------------------------------------------------- claims on LiteSATALinkTX

\* primitive p is the word on the TX output and the phy takes it
TXSends(p) ==
    /\ TXOut = [stb |-> TRUE, data |-> p, charisk |-> 1]
    /\ inp.ack

\* C14: SOF and EOF are really sent. The FSM leaves SOF for COPY only in a
\* cycle in which the output carries SOF and is accepted, and EOF for WTRM
\* only in a cycle in which the output carries EOF and is accepted, whatever
\* from_rx is.
C14_SofEofSent ==
    [][/\ (tx.state = "SOF" /\ tx'.state = "COPY") => TXSends(primitives.SOF)
       /\ (tx.state = "EOF" /\ tx'.state = "WTRM") => TXSends(primitives.EOF)
      ]_vars

\* C15: TX yields to RX before SOF. The FSM leaves IDLE only for RDY, in a
\* cycle where RX reports idle, the primitive observed by RX is SYNC and the
\* payload pipeline presents a valid word with sop; in RDY it returns to
\* IDLE whenever RX does not report idle, an R_RDY observed in the same
\* cycle notwithstanding; it leaves RDY for SOF only when R_RDY is observed
\* while RX reports idle.
C15_YieldsToRX ==
    [][/\ (tx.state = "IDLE" /\ tx'.state # "IDLE") =>
              /\ tx'.state = "RDY"
              /\ inp.from_rx.idle
              /\ FromRXSees(inp.from_rx, primitives.SYNC)
              /\ TXPipe.stb /\ TXPipe.sop
       /\ (tx.state = "RDY" /\ ~inp.from_rx.idle) => tx'.state = "IDLE"
       /\ (tx.state = "RDY" /\ tx'.state \notin {"RDY", "IDLE"}) =>
              /\ tx'.state = "SOF"
              /\ inp.from_rx.idle
              /\ FromRXSees(inp.from_rx, primitives.R_RDY)
       /\ (tx.state = "RDY" /\ inp.from_rx.idle) =>
              tx'.state = IF FromRXSees(inp.from_rx, primitives.R_RDY)
                          THEN "SOF" ELSE "RDY"
      ]_vars

\* in RDY, RX is not idle and observes R_RDY
C15_Witness ==
    /\ tx.state = "RDY"
    /\ ~inp.from_rx.idle
    /\ FromRXSees(inp.from_rx, primitives.R_RDY)

\* C16: HOLD when the payload is not ready. In every cycle in which the FSM
\* is in COPY, from_rx.insert is zero and the payload pipeline has no valid
\* word, the output is valid and carries HOLD with the control flag, the
\* cycle in which RX observes the peer's HOLD included.
C16_HoldWhenNotReady ==
    (tx.state = "COPY" /\ inp.from_rx.insert = Zero /\ ~TXPipe.stb)
        => TXOut = [stb |-> TRUE, data |-> primitives.HOLD, charisk |-> 1]

\* ------------------------------------------------- claims on LiteSATALinkRX

\* the word RX pushes into its pipeline in the current cycle
RXPushed == RXPipelineSink(rx, inp.word)

\* C17: RX packet reconstruction. With d1..dn the data words received since
\* SOF (feed.frame), RX pushes a word into its descramble / CRC pipeline
\* exactly in the cycles of COPY in which a data word or EOF arrives, and
\* then the last data word received: d_k when d_(k+1) arrives, d_n when EOF
\* arrives, each once and in order, with sop exactly on d1 and eop exactly
\* on the word pushed on EOF; a HOLD of the peer pushes nothing.
C17_Reconstruction ==
    /\ RXPushed.stb <=>
          /\ rx.state = "COPY"
          /\ RXDataStb(inp.word) \/ RXSees(inp.word, primitives.EOF)
    /\ RXPushed.stb =>
          /\ feed.frame # << >>
          /\ RXPushed.data = feed.frame[Len(feed.frame)]
          /\ RXPushed.sop <=> Len(feed.frame) = 1
          /\ RXPushed.eop <=> RXSees(inp.word, primitives.EOF)

\* EOF arrives after three data words: the third is pushed with eop and
\* without sop
C17_Witness ==
    /\ rx.state = "COPY"
    /\ Len(feed.frame) = 3
    /\ RXSees(inp.word, primitives.EOF)
    /\ RXPushed.stb /\ RXPushed.eop /\ ~RXPushed.sop
    /\ RXPushed.data = feed.frame[3]

\* a HOLD of the peer between two data words
C17_WitnessHold ==
    /\ rx.state = "COPY"
    /\ Len(feed.frame) = 1
    /\ RXSees(inp.word, primitives.HOLD)
    /\ ~RXPushed.stb

\* EOF right after the first data word: it is pushed with sop and eop
C17_WitnessOne ==
    /\ rx.state = "COPY"
    /\ Len(feed.frame) = 1
    /\ RXSees(inp.word, primitives.EOF)
    /\ RXPushed.sop /\ RXPushed.eop

\* C18: RX waits for the peer's WTRM. When the peer's EOF is observed in
\* COPY the FSM moves to its EOF state, which it leaves only in a cycle in
\* which the peer's WTRM is observed.
C18_WaitsForWTRM ==
    [][/\ (rx.state = "COPY" /\ RXSees(inp.word, primitives.EOF)) =>
              rx'.state = "EOF"
       /\ (rx.state = "EOF" /\ rx'.state # "EOF") =>
              RXSees(inp.word, primitives.WTRM)
      ]_vars

\* ================================================ CONT inserter, the runs
\* the word at the sink of the inserter and the word at its output in the
\* current cycle of the CONT round trip
CONTSink == PhyStreamerWord(feed, inp.stb)

CONTMid == CONTInserterSource(contI, CONTSink)

\* the inserter replaces the word at its sink by CONT and the word is taken
CONTEmitted ==
    /\ CONTSink.stb
    /\ ~CONTInserterChange(contI, CONTSink)
    /\ contI.counter = 1
    /\ inp.ack

\* C19: CONT preamble. Every CONT the inserter emits is immediately preceded
\* on its output by two consecutive identical control-flagged words equal
\* to the primitive being continued, also for a run that directly follows
\* a compressed HOLD run.
C19_Preamble ==
    CONTEmitted =>
        /\ Len(feed.out) = 2
        /\ feed.out[1] = [data |-> CONTSink.data, charisk |-> 1]
        /\ feed.out[2] = [data |-> CONTSink.data, charisk |-> 1]

\* the word the inserter accepted last and the word now at its sink
CONTPrev == feed.stream[feed.i - 1]

CONTSinkAck == CONTInserterSinkAck(contI, CONTSink, inp.ack)

\* a compressed run ends: counter is 2 and the word at the sink differs
\* from the previous one or is a data word
CONTRunEnds ==
    /\ CONTSink.stb
    /\ contI.counter = 2
    /\ \/ PhyLogged(CONTSink) # CONTPrev
       \/ CONTSink.charisk = 0

\* ... by a data word, or the run was a run of HOLD
CONTRunCloses ==
    /\ CONTRunEnds
    /\ (CONTSink.charisk = 0 \/ CONTPrev.data = primitives.HOLD)

\* C20: CONT run closing. When a compressed run ends by a data word, or
\* was a run of HOLD, the inserter emits the run's primitive with the
\* control flag set and does not acknowledge the incoming word; it does so
\* once, the counter is then 0 and the incoming word passes unmodified on
\* the next transfer. When a run of another primitive is ended by a control
\* word nothing is re-emitted. The counter never exceeds 2.
C20_RunClosing ==
    /\ contI.counter <= 2
    /\ feed.closed <= 1
    /\ CONTRunCloses =>
           /\ CONTMid = [stb |-> TRUE, data |-> CONTPrev.data, charisk |-> 1]
           /\ ~CONTSinkAck
           /\ feed.closed = 0
    /\ (CONTRunEnds /\ ~CONTRunCloses) =>
           /\ CONTMid = CONTSink
           /\ CONTSinkAck = inp.ack
           /\ feed.closed = 0
    /\ feed.closed = 1 =>
           /\ contI.counter = 0
           /\ CONTSink.stb => (CONTMid = CONTSink /\ CONTSinkAck = inp.ack)

\* a run was closed by its primitive and the data word that ended it is
\* now transferred
C20_Witness ==
    /\ feed.closed = 1
    /\ CONTSink.stb
    /\ CONTSink.charisk = 0
    /\ inp.ack

\* the same for a run of HOLD ended by another primitive
C20_WitnessHold ==
    /\ feed.closed = 1
    /\ CONTSink.stb
    /\ CONTSink.charisk = 1
    /\ CONTPrev.data = primitives.HOLD
    /\ inp.ack

\* a run of SYNC ended by HOLD is transferred
C20_WitnessNoClose ==
    /\ CONTRunEnds
    /\ ~CONTRunCloses
    /\ inp.ack

\* ==================================================== LiteSATACONTRemover
\* streamer -> LiteSATACONTRemover -> logger, with stalls on both ends; the
\* stream is any sequence of SYNC, HOLD, CONT and data words

RemWords == PhyWords \cup {[data |-> primitives.CONT, charisk |-> 1]}

RemStreams == UNION {[1..n -> RemWords] : n \in 1..MaxStream}

InitRem ==
    /\ IdleCRC
    /\ IdleScr
    /\ IdleCONT
    /\ IdleLink
    /\ inp \in [stb : BOOLEAN, ack : BOOLEAN]
    /\ \E st \in RemStreams : feed = [stream |-> st, i |-> 1]
    /\ got = << >>

TickRem ==
    LET sink   == PhyStreamerWord(feed, inp.stb)
        source == CONTRemoverSource(contR, sink)
    IN  /\ contR' = CONTRemoverNext(contR, sink, inp.ack)
        /\ feed' = IF sink.stb /\ inp.ack
                   THEN [feed EXCEPT !.i = feed.i + 1] ELSE feed
        /\ got' = IF source.stb /\ inp.ack
                  THEN Append(got, PhyLogged(source)) ELSE got
        /\ inp' \in [stb : BOOLEAN, ack : BOOLEAN]
        /\ UNCHANGED <<crcI, crcC, scr, contI, tx, rx, peer, wire>>

NextRem == TickRem

SpecRem == InitRem /\ [][NextRem]_vars

\* the word at the sink of the remover and the word at its source
RemSink == PhyStreamerWord(feed, inp.stb)

RemSource == CONTRemoverSource(contR, RemSink)

\* word w of a stream is a CONT marker; is a control word other than CONT
IsContMarker(w) == w.charisk # 0 /\ w.data = primitives.CONT

IsGenuine(w) == w.charisk # 0 /\ w.data # primitives.CONT

\* the last control word other than CONT among the first n words of a
\* stream (0 before the first one), and whether the last control word among
\* them is a CONT marker
RECURSIVE LastGenuine(_, _)
LastGenuine(st, n) ==
    IF n = 0 THEN Zero
    ELSE IF IsGenuine(st[n]) THEN st[n].data
    ELSE LastGenuine(st, n - 1)

RECURSIVE AfterCont(_, _)
AfterCont(st, n) ==
    IF n = 0 THEN FALSE
    ELSE IF st[n].charisk # 0 THEN IsContMarker(st[n])
    ELSE AfterCont(st, n - 1)

\* the primitive in the place of the word now at the sink
RemSubstitute ==
    [stb |-> TRUE, data |-> LastGenuine(feed.stream, feed.i - 1),
     charisk |-> 1]

\* C21 as stated: after a CONT marker is accepted the remover is in the
\* in-CONT state; there the control words that are not genuine (further
\* CONT markers) are replaced by the last primitive seen before the CONT
\* marker, control flag set, and every other word, a data word included,
\* passes as it is; a genuine control word ends the state.
C21_SubstitutesNonData ==
    /\ contR.in_cont = AfterCont(feed.stream, feed.i - 1)
    /\ (contR.in_cont /\ RemSink.stb) =>
           IF IsContMarker(RemSink) THEN RemSource = RemSubstitute
           ELSE RemSource = RemSink

\* C21: CONT remover substitution. After a CONT marker is accepted the
\* remover is in the in-CONT state, which it leaves when a control word
\* other than CONT is accepted. A CONT marker, and in the in-CONT state
\* every data word, is replaced by the last control word other than CONT
\* accepted before it, control flag set; every other word passes as it is.
\* No CONT marker appears at the source.
C21_SubstitutesData ==
    /\ contR.in_cont = AfterCont(feed.stream, feed.i - 1)
    /\ RemSink.stb =>
           /\ RemSource =
                  IF \/ IsContMarker(RemSink)
                     \/ (contR.in_cont /\ RemSink.charisk = 0)
                  THEN RemSubstitute ELSE RemSink
           /\ ~IsContMarker(RemSource)
    /\ \A k \in 1..Len(got) : ~IsContMarker(got[k])

\* a data word that follows SYNC or HOLD and a CONT marker is replaced and
\* transferred
C21_Witness ==
    /\ contR.in_cont
    /\ RemSink.stb
    /\ RemSink.charisk = 0
    /\ RemSubstitute.data # Zero
    /\ inp.ack

\* a genuine control word other than the continued one ends the state
C21_WitnessLeaves ==
    /\ contR.in_cont
    /\ RemSink.stb
    /\ IsGenuine(RemSink)
    /\ RemSink.data # LastGenuine(feed.stream, feed.i - 1)
    /\ LastGenuine(feed.stream, feed.i - 1) # Zero
    /\ inp.ack

\* ================================== two links: resets and lockstep per word
\* the signals of the current cycle in the sender's TX and the receiver's RX

LinkSink == StreamerWord(feed, inp.stb)

LinkFromRX == RXToTX(peer.rx, wire.rev, FALSE)

\* the word at the sink of the TX scrambler, and whether it is transferred
LinkTXIn == InserterSource(tx.crc, LinkSink)

LinkTXAck == TXPipelineAck(tx, LinkSink, LinkFromRX, TRUE)

LinkTXScrambles == LinkTXIn.stb /\ LinkTXAck

\* its place in the packet: word feed.i of the packet while the CRC
\* inserter copies, one past the packet's last word for the CRC it inserts
LinkTXIndex ==
    IF tx.crc.state = "COPY" THEN feed.i
    ELSE Len(feed.pkts[feed.p - 1]) + 1

\* crc.ce of the CRC inserter
LinkTXCrcCe == tx.crc.state = "COPY" /\ LinkSink.stb /\ LinkTXAck

\* the word at the sink of the RX descrambler, and whether it is transferred
LinkRXIn == RXPipelineSink(rx, wire.fwd)

LinkRXDescrambles == LinkRXIn.stb /\ RXPipelineAck(rx, wire.fwd, TRUE)

\* crc.ce of the CRC checker
LinkRXCrcCe ==
    /\ LinkRXDescrambles
    /\ \/ rx.crc.state = "COPY"
       \/ (rx.crc.state = "IDLE" /\ LinkRXIn.sop)

\* the words of the frame descrambled before the one at the sink
LinkRXBefore == IF LinkRXIn.sop THEN << >> ELSE feed.rcvd

\* C22: per-packet reset and lockstep. In the cycle word k of a packet (its
\* CRC trailer included) is scrambled by TX, and in the cycle it is
\* descrambled by RX, the scrambler context is the seed 0xF0F6 advanced
\* k - 1 times, the seed itself for the first word; in the cycle a word
\* enters the engine of the CRC inserter, or of the CRC checker, the CRC
\* register is 0x52325032 updated with the words of the packet before it,
\* 0x52325032 itself for the first word; every word descrambled enters the
\* checker's engine.
C22_ResetAndLockstep ==
    /\ LinkTXScrambles => tx.context = ContextAfter(LinkTXIndex - 1)
    /\ LinkTXCrcCe =>
           tx.crc.reg = CRCOf(init, SubSeq(feed.pkts[feed.p], 1, feed.i - 1))
    /\ LinkRXDescrambles =>
           /\ rx.context = ContextAfter(Len(LinkRXBefore))
           /\ LinkRXCrcCe
           /\ rx.crc.reg = CRCOf(init, LinkRXBefore)

\* RX descrambles the CRC trailer of the last of MaxPkts packets, a packet
\* of MaxLinkLen words during which TX was held off
C22_Witness ==
    /\ feed.p > MaxPkts
    /\ Len(feed.pkts) = MaxPkts
    /\ feed.held
    /\ LinkRXDescrambles
    /\ LinkRXIn.eop
    /\ Len(feed.rcvd) = MaxLinkLen

\* TX scrambles the first word of its second packet
C22_WitnessFirst ==
    /\ feed.p = 2
    /\ LinkTXScrambles
    /\ LinkTXIn.sop

\* ============================================================== CRCEngine
\* the engine applied to pairs (last, data): last is a word of EngWords, then
\* the engine's own next; data a word of EngWords or last itself

EngWords ==
    {Zero, init, check, Bits(polynom), 0..(width - 1), {0}, {width - 1}}

EngPair(last, data, n) ==
    [last |-> last, data |-> data, next |-> CRCEngine(last, data), n |-> n]

InitEng ==
    /\ IdleCRC
    /\ IdleScr
    /\ IdleCONT
    /\ IdleLink
    /\ inp = [stb |-> TRUE, ack |-> TRUE]
    /\ \E last \in EngWords : \E data \in EngWords :
          feed = EngPair(last, data, 1)
    /\ got = << >>

TickEng ==
    /\ feed.n < MaxEng
    /\ \E data \in EngWords \cup {feed.next} :
          feed' = EngPair(feed.next, data, feed.n + 1)
    /\ UNCHANGED <<crcI, crcC, scr, contI, contR, tx, rx, peer, wire, inp,
                   got>>

NextEng == TickEng

SpecEng == InitEng /\ [][NextEng]_vars

\* one step of the bit-serial MSB-first LFSR: shift left, drop the top bit
\* and XOR polynom in if it was set
BitSerialStep(c) ==
    LET shifted == {k + 1 : k \in c \ {width - 1}}
    IN  IF (width - 1) \in c THEN XOR(shifted, Bits(polynom)) ELSE shifted

RECURSIVE BitSerial(_, _)
BitSerial(c, n) == IF n = 0 THEN c ELSE BitSerial(BitSerialStep(c), n - 1)

\* C23: the CRC engine matches the bit-serial reference. next is last XOR
\* data taken through width steps of the MSB-first shift-and-XOR LFSR of
\* polynom 0x04C11DB7; it depends on last XOR data only, and is 0 when data
\* equals last.
C23_BitSerial ==
    /\ feed.next = BitSerial(XOR(feed.last, feed.data), width)
    /\ feed.next = CRCEngine(Zero, XOR(feed.last, feed.data))
    /\ feed.next = CRCEngine(XOR(feed.last, feed.data), Zero)
    /\ feed.data = feed.last => feed.next = Zero

\* the engine was applied to a last that is itself a CRC and to a data
\* other than it
C23_Witness ==
    /\ feed.n = MaxEng
    /\ feed.last \notin EngWords
    /\ feed.data \notin {feed.last, Zero}
    /\ feed.next # Zero

\* ... and to a data equal to last
C23_WitnessEqual ==
    /\ feed.n > 1
    /\ feed.last # Zero
    /\ feed.data = feed.last

\* ------------------------------------------- LiteSATALinkTX, the payload
\* the payload pipeline's word is acknowledged in the current cycle
TXConsumes ==
    /\ TXPipe.stb
    /\ TXPipelineAck(tx, StreamerWord(feed, inp.stb), inp.from_rx, inp.ack)

\* the words a packet puts on the wire: its words and its CRC, word k
\* scrambled with the context k - 1 words after the reset
WireOf(pkt) ==
    LET framed == Append(pkt, CRCOf(init, pkt))
    IN  [k \in 1..Len(framed) |->
            XOR(framed[k], ScramblerValue(ContextAfter(k - 1)))]

RECURSIVE WireOfAll(_)
WireOfAll(pkts) ==
    IF pkts = << >> THEN << >> ELSE WireOf(Head(pkts)) \o WireOfAll(Tail(pkts))

\* the words of the payload pipeline consumed so far: those of the packets
\* the streamer has finished, less the CRC the inserter still holds, and the
\* words of the packet under way
TXConsumed ==
    Len(WireOfAll(SubSeq(feed.pkts, 1, feed.p - 1)))
        - (IF tx.crc.state = "INSERT" THEN 1 ELSE 0)
        + (feed.i - 1)

\* C24: TX consumes payload only when it sends it. A word of the payload
\* pipeline is acknowledged only in a cycle in which the FSM is in COPY,
\* from_rx.insert is zero, the FSM selects no primitive, the output carries
\* that word with the control flag clear and the phy accepts it; the data
\* words the phy took are, in order, exactly the pipeline words consumed.
C24_ConsumesWhenSent ==
    /\ TXConsumes =>
           /\ tx.state = "COPY"
           /\ inp.from_rx.insert = Zero
           /\ TXOwn = Zero
           /\ TXOut = [stb |-> TRUE, data |-> TXPipe.data, charisk |-> 0]
           /\ inp.ack
    /\ got = SubSeq(WireOfAll(feed.pkts), 1, TXConsumed)

\* in COPY a payload word is ready and the phy accepts, but RX forces a
\* primitive: the word is not consumed
C24_Witness ==
    /\ tx.state = "COPY"
    /\ TXPipe.stb
    /\ inp.ack
    /\ inp.from_rx.insert # Zero
    /\ ~TXConsumes
    /\ got # << >>

\* the CRC of the last packet is consumed and sent
C24_WitnessSent ==
    /\ TXConsumes
    /\ TXPipe.eop
    /\ feed.p > MaxPkts

\* the data words of a sequence of phy words, in order
DataSub(log) == SelectSeq(log, LAMBDA w : w.charisk = 0)

\* C25: data words survive CONT. The data words at the output of the
\* remover are, in values and order, the data words the inserter has
\* accepted; a data word at the inserter's sink appears unmodified on its
\* output, or waits unacknowledged behind a control word other than CONT;
\* and it is never transferred on the output directly after a CONT marker
\* or a filler word.
C25_DataSurvives ==
    /\ DataSub(got) = DataSub(SubSeq(feed.stream, 1, feed.i - 1))
    /\ (CONTSink.stb /\ CONTSink.charisk = 0) =>
           \/ CONTMid = CONTSink
           \/ (CONTMid.charisk # 0 /\ ~IsContMarker(CONTMid) /\ ~CONTSinkAck)
    /\ (CONTSink.stb /\ CONTSink.charisk = 0 /\ CONTMid = CONTSink /\ inp.ack)
           => ~feed.filled

\* a data word is transferred behind a run of four identical primitives
\* (two of them passed, CONT, filler) closed by the re-emitted primitive
C25_Witness ==
    /\ feed.i >= 5
    /\ \A k \in 1..4 : feed.stream[feed.i - k] = feed.stream[feed.i - 1]
    /\ CONTPrev.charisk # 0
    /\ CONTSink.stb
    /\ CONTSink.charisk = 0
    /\ CONTMid = CONTSink
    /\ inp.ack
    /\ feed.closed = 1

\* ------------------------------------------ two links: to_tx and the mux
\* the states of the RX FSM
RXStates ==
    {"IDLE", "RDY", "WAIT_FIRST", "COPY", "EOF", "WTRM", "R_OK", "R_ERR"}

\* to_tx of the receiver's RX, wired to the TX next to it, and that TX's
\* output
LinkBackFrom == RXToTX(rx, wire.fwd, inp.hold)

LinkBackOut == TXSource(peer.tx, NoWord, LinkBackFrom)

\* the sender's TX output
LinkOut == TXSource(tx, LinkSink, LinkFromRX)

\* C26: RX insert is non-zero exactly when RX is busy. In every state of the
\* RX FSM, with the word and the hold of the cycle, to_tx.insert is zero
\* exactly if the state is IDLE, and so exactly if to_tx.idle; in the two
\* links, in every cycle
\* in which the RX next to a TX is not in IDLE the TX output is the RX's
\* insert with the control flag and no payload word is acknowledged: what the
\* TX FSM selects is on the output in cycles with RX in IDLE only.
C26_InsertIffBusy ==
    /\ \A st \in RXStates :
          LET to_tx == RXToTX([rx EXCEPT !.state = st], wire.fwd, inp.hold)
          IN  /\ (to_tx.insert = Zero) <=> (st = "IDLE")
              /\ to_tx.idle <=> (st = "IDLE")
    /\ (LinkBackFrom.insert = Zero) <=> (rx.state = "IDLE")
    /\ (LinkFromRX.insert = Zero) <=> (peer.rx.state = "IDLE")
    /\ rx.state # "IDLE" =>
          LinkBackOut = [stb |-> TRUE, data |-> LinkBackFrom.insert,
                         charisk |-> 1]
    /\ peer.rx.state # "IDLE" =>
          /\ LinkOut = [stb |-> TRUE, data |-> LinkFromRX.insert,
                        charisk |-> 1]
          /\ ~LinkTXAck
    /\ TXInsert(peer.tx, NoWord, LinkBackFrom) # Zero => rx.state = "IDLE"

\* the receiver's RX is in COPY and asks for HOLD: the TX next to it, in
\* IDLE, sends the HOLD
C26_Witness ==
    /\ rx.state = "COPY"
    /\ inp.hold
    /\ LinkBackFrom.insert = primitives.HOLD
    /\ peer.tx.state = "IDLE"
    /\ LinkBackOut.data = primitives.HOLD

\* the sender's TX sends a payload word, the RX next to it in IDLE
C26_WitnessIdle ==
    /\ LinkTXScrambles
    /\ LinkOut.charisk = 0
    /\ peer.rx.state = "IDLE"

====
